---- MODULE Spec2Model ----
(***************************************************************************)
(* Finite-context (order-k Markov) models of the repository:               *)
(*   assignment1/fcm.cpp        FiniteContextModel (train, probability,    *)
(*                              compute_aic)                               *)
(*   assignment1/generator.cpp  Generator (loadModel, generateText)        *)
(*   assignment2/MetaClass_*.cpp  NRC scoring and ranking                  *)
(* Strings are sequences of one-character strings.  Doubles that the code  *)
(* computes from counts are kept as exact fractions <<num, den>>.          *)
(***************************************************************************)
EXTENDS Integers, Sequences, FiniteSets, TLC

\* ---------------------------------------------------------------- bounds
\* longest text handed to the first train call
MaxLen == 3
\* longest text handed to compute_aic
MaxAicLen == 2
\* number of probability / compute_aic queries in one behaviour
MaxQueries == 1
\* number of train calls in one behaviour
MaxTrains == 2

\* symbols of the texts
Chars == {"A", "B"}
\* Markov orders given to the constructor (argv is not validated)
Orders == {-1, 0, 1, 2}
\* smoothing parameters given to the constructor, as fractions <<num, den>>
\* (all three are exact as doubles)
Alphas == {<<0, 1>>, <<1, 2>>, <<1, 1>>}
\* alphabet sizes handed to probability
Sigmas == {1, 2}

StringsUpTo(n) == UNION {[1..m -> Chars] : m \in 0..n}
\* the worked example of the specification, section 8
ExampleText == <<"A", "B", "A", "B">>
Texts == StringsUpTo(MaxLen) \cup {ExampleText}
AicTexts == StringsUpTo(MaxAicLen) \cup {ExampleText}
\* texts handed to a repeated train call
RetrainTexts == {<<"B", "B", "A">>}

\* ------------------------------------------------------------- variables
VARIABLES
    prog,             \* which program of the repository this behaviour runs
    k,                \* FiniteContextModel::k
    alpha,            \* FiniteContextModel::alpha, <<num, den>>
    frequency_table,  \* context -> (symbol -> count); DOMAIN = the keys
    context_counts,   \* context -> count
    pc,               \* "idle", or "train" inside train's loop
    text,             \* argument of the running train call
    i,                \* loop index of the running train call
    trained,          \* history: texts of the completed train calls
    queries,          \* history: number of queries made
    last,             \* history: the last completed call and its outcome
    counts,           \* MarkovModel::counts: context -> (symbol -> count)
    sample,           \* main's metagenomic_sample
    reference_db,     \* main's reference_db: sequence of [name, seq]
    spc,              \* where MetaClass's main is
    ti,               \* loop index of MarkovModel::train / of the launch loop
    futures,          \* calculate_nrc_parallel's futures: [state, value]
    results,          \* calculate_nrc_parallel's results, then main's
    unique_chars,     \* Generator::unique_chars
    prior,            \* Generator::prior
    size,             \* Generator::size
    context,          \* generateText's context
    generatedText,    \* generateText's generatedText
    file,             \* frequency_table.txt: the sequence of its lines
    loaded            \* Generator's maps after loadModel read the file

fcmVars == <<k, alpha, frequency_table, context_counts, pc, text, i,
             trained, queries, last>>
scoreVars == <<counts, sample, reference_db, spc, ti, futures, results>>
genVars == <<unique_chars, prior, size, context, generatedText, file, loaded>>
vars == <<prog, k, alpha, frequency_table, context_counts, pc, text, i,
          trained, queries, last, counts, sample, reference_db, spc, ti,
          futures, results, unique_chars, prior, size, context, generatedText,
          file, loaded>>

\* ------------------------------------------------------- size_t and maps
\* A size_t value v mod 2^64 is kept as the small integer v; a negative v
\* stands for 2^64 + v.  Unsigned comparison on that representation:
ULess(a, b) == IF (a >= 0) = (b >= 0) THEN a < b ELSE b < 0

Min(a, b) == IF a < b THEN a ELSE b

EmptyMap == [x \in {} |-> 0]

\* std::string::substr(pos, n) for pos <= size(); n < 0 is npos after the
\* conversion to size_t
Substr(s, pos, n) ==
    IF n < 0 THEN SubSeq(s, pos + 1, Len(s))
    ELSE SubSeq(s, pos + 1, Min(pos + n, Len(s)))

\* unordered_map::operator[] on a missing key value-initialises it
Touch(m, key, dflt) ==
    [x \in DOMAIN m \cup {key} |-> IF x \in DOMAIN m THEN m[x] ELSE dflt]

\* frequency_table[context][symbol] as an lvalue: both keys now exist
TouchPair(ft, c, s) ==
    LET ft1 == Touch(ft, c, EmptyMap)
    IN  [ft1 EXCEPT ![c] = Touch(ft1[c], s, 0)]

\* read of a count, a missing key reading as 0
Freq(ft, c, s) ==
    IF c \in DOMAIN ft /\ s \in DOMAIN ft[c] THEN ft[c][s] ELSE 0
Total(cc, c) == IF c \in DOMAIN cc THEN cc[c] ELSE 0

\* --------------------------------------------------- FiniteContextModel
\* one iteration of train's loop body
TrainBody(ft, c, s) ==
    LET ft1 == TouchPair(ft, c, s)
    IN  [ft1 EXCEPT ![c][s] = @ + 1]
\* TrainTotals with a seeded fault: the context is entered, its total not incremented
TrainTotalsNoIncrement(cc, c) == Touch(cc, c, 0)
TrainTotals(cc, c) ==
    LET cc1 == Touch(cc, c, 0)
    IN  [cc1 EXCEPT ![c] = @ + 1]

\* the loop condition  i + k < text.size()  in size_t arithmetic
TrainGuard(j, t) == ULess(j + k, Len(t))

\* double -> int conversion of  count + alpha  (non-negative: truncation)
TruncAdd(count, a) == (count * a[2] + a[1]) \div a[2]
\* double -> int conversion of  count + alpha * sigma
TruncAddScaled(count, a, sigma) == (count * a[2] + a[1] * sigma) \div a[2]

\* ProbValue with a seeded fault: the denominator smooths once, not once per symbol
ProbValueNoSigma(ft, cc, c, s, sigma) ==
    <<TruncAdd(Freq(ft, c, s), alpha), TruncAdd(Total(cc, c), alpha)>>
\* probability(): the value returned, as <<count_symbol, count_context>>
ProbValue(ft, cc, c, s, sigma) ==
    <<TruncAdd(Freq(ft, c, s), alpha), TruncAddScaled(Total(cc, c), alpha, sigma)>>
\* probability(): the maps after the two operator[] reads
ProbTable(ft, c, s) == TouchPair(ft, c, s)
ProbTotals(cc, c) == Touch(cc, c, 0)

\* getSigma: number of distinct characters
getSigma(t) == Cardinality({t[p] : p \in 1..Len(t)})

\* compute_aic's loop from index j on: the maps and the probabilities whose
\* log2 was added to entropy, in order
RECURSIVE AicLoop(_, _, _, _, _, _)
AicLoop(ft, cc, t, sigma, j, terms) ==
    IF ~TrainGuard(j, t) THEN [ft |-> ft, cc |-> cc, terms |-> terms]
    ELSE LET c == Substr(t, j, k)
             s == t[j + k + 1]
         IN  AicLoop(ProbTable(ft, c, s), ProbTotals(cc, c), t, sigma, j + 1,
                     Append(terms, ProbValue(ft, cc, c, s, sigma)))

\* IEEE class of log2(num / den) for num, den >= 0
LogClass(p) ==
    IF p[2] = 0 THEN (IF p[1] = 0 THEN "nan" ELSE "posinf")
    ELSE IF p[1] = 0 THEN "neginf" ELSE "finite"

\* IEEE class of  -entropy / (text.size() - k)
AicClass(terms, t) ==
    LET cls == {LogClass(terms[n]) : n \in 1..Len(terms)}
    IN  IF "nan" \in cls \/ ("posinf" \in cls /\ "neginf" \in cls) THEN "nan"
        ELSE IF "neginf" \in cls THEN "posinf"
        ELSE IF "posinf" \in cls THEN "neginf"
        ELSE IF Len(terms) = 0 /\ Len(t) - k = 0 THEN "nan"
        ELSE "finite"

\* before loadModel ran: nothing thrown, empty maps
NoLoad == [thrown |-> FALSE, ft |-> EmptyMap, cc |-> EmptyMap, total |-> 0, strs |-> {}]
NoCall == [op |-> "none", arg |-> <<>>, outcome |-> "none", class |-> "none",
           terms |-> <<>>, value |-> <<0, 1>>, changed |-> FALSE]

InitFcm ==
    /\ prog = "fcm"
    /\ k \in Orders
    /\ alpha \in Alphas
    /\ frequency_table = EmptyMap
    /\ context_counts = EmptyMap
    /\ pc = "idle"
    /\ text = <<>>
    /\ i = 0
    /\ trained = <<>>
    /\ queries = 0
    /\ last = NoCall
    /\ counts = EmptyMap /\ sample = <<>> /\ reference_db = <<>>
    /\ spc = "off" /\ ti = 0 /\ futures = <<>> /\ results = <<>>
    /\ unique_chars = 0 /\ prior = <<>> /\ size = 0
    /\ context = <<>> /\ generatedText = <<>>
    /\ file = <<>> /\ loaded = NoLoad

\* train(text) is entered
TrainStart ==
    /\ prog = "fcm" /\ pc = "idle"
    /\ Len(trained) < MaxTrains
    /\ \E t \in (IF trained = <<>> THEN Texts ELSE RetrainTexts) :
          /\ text' = t
          /\ i' = 0
          /\ pc' = "train"
    /\ UNCHANGED <<prog, k, alpha, frequency_table, context_counts, trained,
                   queries, last>>
    /\ UNCHANGED <<scoreVars, genVars>>

\* one iteration of train's loop
TrainStep ==
    /\ prog = "fcm" /\ pc = "train"
    /\ TrainGuard(i, text)
    /\ LET c == Substr(text, i, k)
           s == text[i + k + 1]
       IN  /\ frequency_table' = TrainBody(frequency_table, c, s)
           /\ context_counts' = TrainTotals(context_counts, c)
    /\ i' = i + 1
    /\ UNCHANGED <<prog, k, alpha, pc, text, trained, queries, last>>
    /\ UNCHANGED <<scoreVars, genVars>>

\* train's loop condition fails and train returns
TrainReturn ==
    /\ prog = "fcm" /\ pc = "train"
    /\ ~TrainGuard(i, text)
    /\ pc' = "idle"
    /\ trained' = Append(trained, text)
    /\ last' = [NoCall EXCEPT !.op = "train", !.arg = text, !.outcome = "returned"]
    /\ UNCHANGED <<prog, k, alpha, frequency_table, context_counts, text, i,
                   queries>>
    /\ UNCHANGED <<scoreVars, genVars>>

\* a call of probability(context, symbol, sigma)
Probability ==
    /\ prog = "fcm" /\ pc = "idle"
    /\ trained # <<>> /\ queries < MaxQueries
    /\ \E c \in {x \in StringsUpTo(2) : Len(x) = k}, s \in Chars, sigma \in Sigmas :
          /\ frequency_table' = ProbTable(frequency_table, c, s)
          /\ context_counts' = ProbTotals(context_counts, c)
          /\ last' = [NoCall EXCEPT !.op = "probability", !.arg = <<c, s, sigma>>,
                         !.outcome = "returned",
                         !.value = ProbValue(frequency_table, context_counts, c, s, sigma),
                         !.changed = <<frequency_table', context_counts'>>
                                     # <<frequency_table, context_counts>>]
    /\ queries' = queries + 1
    /\ UNCHANGED <<prog, k, alpha, pc, text, i, trained>>
    /\ UNCHANGED <<scoreVars, genVars>>

\* a call of compute_aic(text)
ComputeAic ==
    /\ prog = "fcm" /\ pc = "idle"
    /\ trained # <<>> /\ queries < MaxQueries
    /\ \E t \in AicTexts :
          LET r == AicLoop(frequency_table, context_counts, t, getSigma(t), 0, <<>>)
          IN  /\ frequency_table' = r.ft
              /\ context_counts' = r.cc
              /\ last' = [NoCall EXCEPT !.op = "compute_aic", !.arg = t,
                             !.outcome = "returned",
                             !.class = AicClass(r.terms, t),
                             !.terms = r.terms,
                             !.changed = <<r.ft, r.cc>>
                                         # <<frequency_table, context_counts>>]
    /\ queries' = queries + 1
    /\ UNCHANGED <<prog, k, alpha, pc, text, i, trained>>
    /\ UNCHANGED <<scoreVars, genVars>>

NextFcm == TrainStart \/ TrainStep \/ TrainReturn \/ Probability \/ ComputeAic

SpecFcm == InitFcm /\ [][NextFcm]_vars

\* ------------------------------------------------ MetaClass_NSmooth.cpp
\* longest metagenomic sample
MaxSample == 3
\* most entries of the reference database
MaxRefs == 2
\* MarkovModel::alphabet_size (DNA: A, C, G, T)
alphabet_size == 4

\* symbols of the sample and of the references
DnaChars == {"A", "C"}
\* what a read beyond the end of the sample may yield
GarbageChars == {"A", "?"}
\* main's default smoothing parameter, 0.1
DefaultAlpha == <<1, 10>>
Samples == UNION {[1..m -> DnaChars] : m \in 0..MaxSample}
\* sequences of the reference entries
RefSeqs == {<<"A">>, <<"A", "C", "A">>, <<"C", "A", "A", "C">>}
\* names of the reference entries, by position in the file
RefNames == <<"r1", "r2", "r3", "r4">>
RefDbs ==
    UNION {[1..m -> RefSeqs] : m \in 0..MaxRefs}

\* the loop condition of MarkovModel::train,  i < sequence.length() - k
MTrainGuard(j, t) == ULess(j, Len(t) - k)

\* estimate_bits' loop from index j on:  i <= sequence.size() - k
RECURSIVE EstimateLoop(_, _, _)
EstimateLoop(cnts, t, j) ==
    IF ULess(Len(t) - k, j) THEN 0
    ELSE LET k2 == Substr(t, j, k)
         IN  (IF k2 \in DOMAIN cnts THEN Cardinality(DOMAIN cnts[k2]) ELSE 0)
             + EstimateLoop(cnts, t, j + 1)
estimate_bits(cnts, t) == EstimateLoop(cnts, t, 0)

\* calculate_nrc: the NRC as a fraction <<bits, 2 * length>>
calculate_nrc(cnts, t) ==
    IF ~ULess(k, Len(t)) THEN <<1, 1>>
    ELSE <<estimate_bits(cnts, t), 2 * Len(t)>>

\* estimate_bits looks the context up with counts.find(k2): the map as that
\* lookup leaves it
EstimateFindInserting(cnts, k2) == Touch(cnts, k2, EmptyMap)
EstimateFind(cnts, k2) == cnts

\* counts after estimate_bits' loop from index j on
RECURSIVE EstimateCounts(_, _, _)
EstimateCounts(cnts, t, j) ==
    IF ULess(Len(t) - k, j) THEN cnts
    ELSE EstimateCounts(EstimateFind(cnts, Substr(t, j, k)), t, j + 1)

\* counts after calculate_nrc(t)
NrcCounts(cnts, t) ==
    IF ~ULess(k, Len(t)) THEN cnts ELSE EstimateCounts(cnts, t, 0)

\* the entry the lambda of the task launched for entry j holds: the loop
\* variable captured by value
CapturedEntryLast(db, j) == db[Len(db)]
CapturedEntry(db, j) == db[j]

\* OrganismMatch::operator<
NrcLess(a, b) == a.nrc[1] * b.nrc[2] < b.nrc[1] * a.nrc[2]

Orderings(n) == {f \in [1..n -> 1..n] : \A a, b \in 1..n : a # b => f[a] # f[b]}
\* what std::sort may leave: any arrangement ordered by operator<
SortOutcomes(r) ==
    {[j \in 1..Len(r) |-> r[f[j]]] : f \in
        {g \in Orderings(Len(r)) :
            \A a, b \in 1..Len(r) : a < b => ~NrcLess(r[g[b]], r[g[a]])}}

InitScore ==
    /\ prog \in {"nsmooth", "metac"}
    /\ k \in Orders
    /\ alpha = DefaultAlpha
    /\ frequency_table = EmptyMap /\ context_counts = EmptyMap
    /\ pc = "off" /\ text = <<>> /\ i = 0 /\ trained = <<>> /\ queries = 0
    /\ last = NoCall
    /\ counts = EmptyMap
    /\ sample \in Samples
    /\ \E db \in RefDbs :
          reference_db = [j \in 1..Len(db) |-> [name |-> RefNames[j], seq |-> db[j]]]
    \* MetaClass_C exits on an empty sample and on an empty database
    /\ prog = "metac" => (sample # <<>> /\ reference_db # <<>>)
    /\ spc = "train"
    /\ ti = 0
    /\ futures = <<>>
    /\ results = <<>>
    /\ unique_chars = 0 /\ prior = <<>> /\ size = 0
    /\ context = <<>> /\ generatedText = <<>>
    /\ file = <<>> /\ loaded = NoLoad

fcmFrame == <<frequency_table, context_counts, pc, text, i, trained, queries, last,
              unique_chars, prior, size, context, generatedText, file, loaded>>

\* one iteration of MarkovModel::train's loop on the sample
MTrainStep ==
    /\ prog = "nsmooth" /\ spc = "train"
    /\ MTrainGuard(ti, sample)
    /\ IF ti > Len(sample)
       THEN \* substr(i, k) with i > size() throws std::out_of_range
            /\ spc' = "aborted"
            /\ UNCHANGED <<counts, ti>>
       ELSE LET ctx == Substr(sample, ti, k)
                at == ti + k
            IN  \/ /\ 0 <= at /\ at < Len(sample)
                   /\ counts' = TrainBody(counts, ctx, sample[at + 1])
                   /\ ti' = ti + 1
                   /\ spc' = spc
                \/ /\ at = Len(sample)
                   /\ counts' = TrainBody(counts, ctx, "NUL")
                   /\ ti' = ti + 1
                   /\ spc' = spc
                \/ \* sequence[i + k] beyond the terminator: any value
                   /\ (at < 0 \/ at > Len(sample))
                   /\ \E g \in GarbageChars :
                         counts' = TrainBody(counts, ctx, g)
                   /\ ti' = ti + 1
                   /\ spc' = spc
                \/ \* ... or a fault
                   /\ (at < 0 \/ at > Len(sample))
                   /\ spc' = "crashed"
                   /\ UNCHANGED <<counts, ti>>
    /\ UNCHANGED <<prog, k, alpha, sample, reference_db, futures, results>>
    /\ UNCHANGED fcmFrame

\* MarkovModel::train returns; main reads the database and enters
\* calculate_nrc_parallel
MTrainReturn ==
    /\ prog = "nsmooth" /\ spc = "train"
    /\ ~MTrainGuard(ti, sample)
    /\ spc' = "launch"
    /\ ti' = 0
    /\ UNCHANGED <<prog, k, alpha, counts, sample, reference_db, futures, results>>
    /\ UNCHANGED fcmFrame

\* calculate_nrc_parallel: std::async launches the task of the next entry
Launch ==
    /\ prog = "nsmooth" /\ spc = "launch"
    /\ ti < Len(reference_db)
    /\ futures' = Append(futures, [state |-> "running",
                                    entry |-> CapturedEntry(reference_db, ti + 1),
                                    name |-> "", value |-> <<0, 1>>])
    /\ ti' = ti + 1
    /\ UNCHANGED <<prog, k, alpha, counts, sample, reference_db, spc, results>>
    /\ UNCHANGED fcmFrame

\* calculate_nrc_parallel: the launch loop ends
LaunchDone ==
    /\ prog = "nsmooth" /\ spc = "launch"
    /\ ti = Len(reference_db)
    /\ spc' = "join"
    /\ UNCHANGED <<prog, k, alpha, counts, sample, reference_db, ti, futures, results>>
    /\ UNCHANGED fcmFrame

\* task t runs model.calculate_nrc(entry.second) on the shared model and
\* returns OrganismMatch(entry.first, nrc)
TaskRun(t) ==
    /\ prog = "nsmooth"
    /\ futures[t].state = "running"
    /\ futures' = [futures EXCEPT ![t] =
                      [state |-> "ready",
                       entry |-> futures[t].entry,
                       name |-> futures[t].entry.name,
                       value |-> calculate_nrc(counts, futures[t].entry.seq)]]
    /\ counts' = NrcCounts(counts, futures[t].entry.seq)
    /\ UNCHANGED <<prog, k, alpha, sample, reference_db, spc, ti, results>>
    /\ UNCHANGED fcmFrame

\* calculate_nrc_parallel: fut.get() of the next future, once it is ready
Join ==
    /\ prog = "nsmooth" /\ spc = "join"
    /\ Len(results) < Len(futures)
    /\ LET t == Len(results) + 1
       IN  /\ futures[t].state = "ready"
           /\ results' = Append(results, [name |-> futures[t].name,
                                          nrc |-> futures[t].value])
    /\ UNCHANGED <<prog, k, alpha, counts, sample, reference_db, spc, ti, futures>>
    /\ UNCHANGED fcmFrame

\* calculate_nrc_parallel returns
JoinDone ==
    /\ prog = "nsmooth" /\ spc = "join"
    /\ Len(results) = Len(futures)
    /\ spc' = "sort"
    /\ UNCHANGED <<prog, k, alpha, counts, sample, reference_db, ti, futures, results>>
    /\ UNCHANGED fcmFrame

\* main: std::sort(results.begin(), results.end()), then the output
Sort ==
    /\ prog = "nsmooth" /\ spc = "sort"
    /\ results' \in SortOutcomes(results)
    /\ spc' = "done"
    /\ UNCHANGED <<prog, k, alpha, counts, sample, reference_db, ti, futures>>
    /\ UNCHANGED fcmFrame

\* --------------------------------------------------- MetaClass_C.cpp
\* kmer_counts[kmer]++
CountKmer(m, kmer) ==
    LET m1 == Touch(m, kmer, 0) IN [m1 EXCEPT ![kmer] = @ + 1]

\* the loops  for (i = 0; i <= s.size() - kmer_size; ++i)  of
\* train_markov_model and estimate_compression, kmer_size being k:
\* substr(i, k) throws std::out_of_range once i > size()
RECURSIVE KmerLoop(_, _, _)
KmerLoop(m, t, j) ==
    IF ULess(Len(t) - k, j) THEN [thrown |-> FALSE, m |-> m]
    ELSE IF j > Len(t) THEN [thrown |-> TRUE, m |-> m]
    ELSE KmerLoop(CountKmer(m, Substr(t, j, k)), t, j + 1)

RECURSIVE FloorLog2(_)
\* the int that  count = log2(count + 1)  stores, for the argument n >= 1
FloorLog2(n) == IF n <= 1 THEN 0 ELSE 1 + FloorLog2(n \div 2)

train_markov_model(t) ==
    LET r == KmerLoop(EmptyMap, t, 0)
    IN  [thrown |-> r.thrown,
         m |-> [x \in DOMAIN r.m |-> FloorLog2(r.m[x] + 1)]]

RECURSIVE CompressionLoop(_, _, _)
CompressionLoop(m, t, j) ==
    IF ULess(Len(t) - k, j) THEN [thrown |-> FALSE, bits |-> 0]
    ELSE IF j > Len(t) THEN [thrown |-> TRUE, bits |-> 0]
    ELSE LET kmer == Substr(t, j, k)
             rest == CompressionLoop(m, t, j + 1)
         IN  [thrown |-> rest.thrown,
              bits |-> (IF kmer \in DOMAIN m THEN m[kmer] ELSE 0) + rest.bits]
estimate_compression(t, m) == CompressionLoop(m, t, 0)

\* compute_NRC as a fraction <<bits, 2 * size>>
compute_NRC(t, m) ==
    LET r == estimate_compression(t, m)
    IN  [thrown |-> r.thrown, nrc |-> <<r.bits, 2 * Len(t)>>]

\* main: train_markov_model(metagenomic_sample)
CTrain ==
    /\ prog = "metac" /\ spc = "train"
    /\ LET r == train_markov_model(sample)
       IN  IF r.thrown
           THEN spc' = "aborted" /\ counts' = counts
           ELSE spc' = "score" /\ counts' = r.m
    /\ UNCHANGED <<prog, k, alpha, sample, reference_db, ti, futures, results>>
    /\ UNCHANGED fcmFrame

\* main: one iteration of the loop over db_sequences, an unordered_map:
\* the next entry is any entry not yet visited
CScore ==
    /\ prog = "metac" /\ spc = "score"
    /\ \E j \in 1..Len(reference_db) :
          /\ \A r \in 1..Len(results) : results[r].name # reference_db[j].name
          /\ LET r == compute_NRC(reference_db[j].seq, counts)
             IN  IF r.thrown
                 THEN spc' = "batch_aborted" /\ results' = results
                 ELSE /\ spc' = spc
                      /\ results' = Append(results, [name |-> reference_db[j].name,
                                                     nrc |-> r.nrc])
    /\ UNCHANGED <<prog, k, alpha, counts, sample, reference_db, ti, futures>>
    /\ UNCHANGED fcmFrame

\* main: the loop over db_sequences ends
CScoreDone ==
    /\ prog = "metac" /\ spc = "score"
    /\ Len(results) = Len(reference_db)
    /\ spc' = "sort"
    /\ UNCHANGED <<prog, k, alpha, counts, sample, reference_db, ti, futures, results>>
    /\ UNCHANGED fcmFrame

\* main: sort(nrc_scores.begin(), nrc_scores.end(), by second), then the output
CSort ==
    /\ prog = "metac" /\ spc = "sort"
    /\ results' \in SortOutcomes(results)
    /\ spc' = "done"
    /\ UNCHANGED <<prog, k, alpha, counts, sample, reference_db, ti, futures>>
    /\ UNCHANGED fcmFrame

NextScore ==
    \/ MTrainStep \/ MTrainReturn \/ Launch \/ LaunchDone
    \/ (\E t \in 1..Len(futures) : TaskRun(t))
    \/ Join \/ JoinDone \/ Sort
    \/ CTrain \/ CScore \/ CScoreDone \/ CSort

SpecScore == InitScore /\ [][NextScore]_vars

\* ------------------------------------- generator.cpp and the model file
\* longest text the model file was trained on
MaxGenText == 3
\* most characters asked of generateText
MaxSize == 2

\* characters: "NL" is the newline, "BS" the backslash
GenChars == {"A", "NL"}
\* orders and smoothing parameters given to the generator
GenOrders == {1, 2}
GenAlphas == {<<0, 1>>, <<1, 1>>}
\* rand() / RAND_MAX, from 0 to 1 inclusive
Draws == {<<0, 1>>, <<1, 2>>, <<1, 1>>}
\* the two-character escape of the newline
Escaped == <<"BS", "n">>
GenTexts == UNION {[1..m -> GenChars] : m \in 0..MaxGenText}
\* priors on the command line: one or two Tokens
Priors == {<<"A">>, Escaped, <<"A", "A">>, <<"A">> \o Escaped,
           Escaped \o <<"A">>, Escaped \o Escaped}

\* FiniteContextModel::train as a whole, from index j on
RECURSIVE TrainAll(_, _, _)
TrainAll(ft, t, j) ==
    IF ~TrainGuard(j, t) THEN ft
    ELSE TrainAll(TrainBody(ft, Substr(t, j, k), t[j + k + 1]), t, j + 1)

DigitChars == <<"0", "1", "2", "3", "4", "5", "6", "7", "8", "9">>
IsDigit(ch) == \E d \in 1..10 : DigitChars[d] = ch
DigitValue(ch) == (CHOOSE d \in 1..10 : DigitChars[d] = ch) - 1
RECURSIVE Decimal(_)
\* operator<< of an int
Decimal(n) ==
    IF n < 10 THEN <<DigitChars[n + 1]>>
    ELSE Decimal(n \div 10) \o <<DigitChars[(n % 10) + 1]>>

RECURSIVE EscapeNewlines(_)
\* save_frequencyTable: every '\n' of the context becomes backslash, n
EscapeNewlines(c) ==
    IF c = <<>> THEN <<>>
    ELSE (IF Head(c) = "NL" THEN Escaped ELSE <<Head(c)>>) \o EscapeNewlines(Tail(c))

\* the orders in which an unordered_map may be iterated
Arrangements(S) ==
    {f \in [1..Cardinality(S) -> S] :
        \A a, b \in 1..Cardinality(S) : a # b => f[a] # f[b]}

RECURSIVE SavePairs(_, _, _)
\* save_frequencyTable: the pairs of a line, symbols in the order syms
SavePairs(row, syms, j) ==
    IF j > Len(syms) THEN <<>>
    ELSE (IF j > 1 THEN <<";">> ELSE <<>>)
         \o (IF syms[j] = "NL" THEN Escaped ELSE <<syms[j]>>)
         \o <<";">> \o Decimal(row[syms[j]])
         \o SavePairs(row, syms, j + 1)

\* the line of context c
SaveLine(c, row, syms) == EscapeNewlines(c) \o <<":">> \o SavePairs(row, syms, 1)

\* save_frequencyTable: the files it may write, as sequences of lines
SaveOutcomes(ft) ==
    {[n \in 1..Len(cs) |-> SaveLine(cs[n], ft[cs[n]], order[cs[n]])] :
        cs \in Arrangements(DOMAIN ft),
        order \in {o \in [DOMAIN ft -> UNION {Arrangements(DOMAIN ft[c]) : c \in DOMAIN ft}] :
                      \A c \in DOMAIN ft : o[c] \in Arrangements(DOMAIN ft[c])}}

\* string::find(ch): the first position, from 1, or 0 for npos
Find(str, ch) ==
    IF \E j \in 1..Len(str) : str[j] = ch
    THEN CHOOSE j \in 1..Len(str) : str[j] = ch /\ \A h \in 1..(j - 1) : str[h] # ch
    ELSE 0

RECURSIVE Split(_, _, _)
\* loadModel: getline(tokenStream, token, ';'), empty tokens dropped
Split(str, cur, acc) ==
    IF str = <<>> THEN (IF cur = <<>> THEN acc ELSE Append(acc, cur))
    ELSE IF Head(str) = ";"
         THEN Split(Tail(str), <<>>, IF cur = <<>> THEN acc ELSE Append(acc, cur))
         ELSE Split(Tail(str), Append(cur, Head(str)), acc)

RECURSIVE StoiLoop(_, _)
StoiLoop(tok, acc) ==
    IF tok = <<>> \/ ~IsDigit(Head(tok)) THEN acc
    ELSE StoiLoop(Tail(tok), acc * 10 + DigitValue(Head(tok)))
\* stoi: the leading digits; std::invalid_argument when there are none
StoiThrows(tok) == tok = <<>> \/ ~IsDigit(tok[1])
Stoi(tok) == StoiLoop(tok, 0)

RECURSIVE LoadPairs(_, _, _, _)
\* loadModel: the loop over the tokens of one line, two at a time
LoadPairs(st, c, tokens, j) ==
    IF j + 1 > Len(tokens) THEN st
    ELSE IF StoiThrows(tokens[j + 1]) THEN [st EXCEPT !.thrown = TRUE]
    ELSE LET str == tokens[j]
             count == Stoi(tokens[j + 1])
             ft1 == Touch(st.ft, c, EmptyMap)
             row == Touch(ft1[c], str, 0)
         IN  LoadPairs([st EXCEPT !.ft = [ft1 EXCEPT ![c] = [row EXCEPT ![str] = count]],
                                  !.total = @ + count,
                                  !.strs = @ \cup {str}],
                       c, tokens, j + 2)

RECURSIVE LoadLines(_, _, _)
\* loadModel: the loop over the lines of the file
LoadLines(st, lines, n) ==
    IF n > Len(lines) \/ st.thrown THEN st
    ELSE LET line == lines[n]
             colonPos == Find(line, ":")
         IN  IF colonPos = 0 THEN LoadLines(st, lines, n + 1)
             ELSE LET c == SubSeq(line, 1, colonPos - 1)
                      pairsStr == SubSeq(line, colonPos + 1, Len(line))
                      r == LoadPairs([st EXCEPT !.total = 0], c,
                                     Split(pairsStr, <<>>, <<>>), 1)
                  IN  IF r.thrown THEN r
                      ELSE LoadLines([r EXCEPT !.cc = [x \in DOMAIN r.cc \cup {c} |->
                                                        IF x = c THEN r.total ELSE r.cc[x]]],
                                     lines, n + 1)

\* loadModel: the maps and unique_chars after reading the file
loadModel(lines) ==
    LoadLines(NoLoad, lines, 1)

\* build_probability_table: the candidates of a context with their
\* probabilities (frequency + alpha) / (context_count + alpha * unique_chars)
Candidates(c) ==
    IF c \in DOMAIN frequency_table THEN DOMAIN frequency_table[c] ELSE {}
CandidateWeight(c, str) == frequency_table[c][str] * alpha[2] + alpha[1]
CandidateDenominator(c) ==
    Total(context_counts, c) * alpha[2] + alpha[1] * unique_chars

\* the orders generateText may walk the candidates in: the map's order,
\* then std::sort by descending probability
CandidateOrders(c) ==
    {f \in Arrangements(Candidates(c)) :
        \A a, b \in 1..Len(f) :
            a < b => CandidateWeight(c, f[a]) >= CandidateWeight(c, f[b])}

RECURSIVE SelectLoop(_, _, _, _, _)
\* the inverse-CDF loop: the first candidate whose cumulative probability
\* exceeds the draw; next_string stays empty when none does
SelectLoop(c, order, j, cumulative, draw) ==
    IF j > Len(order) THEN <<>>
    ELSE LET cum == cumulative + CandidateWeight(c, order[j])
         IN  IF draw[1] * CandidateDenominator(c) < cum * draw[2]
             THEN order[j]
             ELSE SelectLoop(c, order, j + 1, cum, draw)

\* generateText: the context after next_string was appended
SlideContext(c, next_string) ==
    IF next_string = Escaped THEN Substr(c, 1, -1) \o Escaped
    ELSE IF Len(c) >= k THEN Substr(c, 1, -1) \o next_string
    ELSE c \o next_string

InitGen ==
    /\ prog = "generator"
    /\ k \in GenOrders
    /\ alpha \in GenAlphas
    /\ pc = "generate" /\ text = <<>> /\ i = 0 /\ trained = <<>> /\ queries = 0
    /\ last = NoCall
    /\ counts = EmptyMap /\ sample = <<>> /\ reference_db = <<>>
    /\ spc = "off" /\ ti = 0 /\ futures = <<>> /\ results = <<>>
    \* frequency_table.txt as fcm wrote it for some text, then loadModel
    /\ \E t \in GenTexts :
          file \in SaveOutcomes(TrainAll(EmptyMap, t, 0))
    /\ loaded = loadModel(file)
    /\ ~loaded.thrown
    /\ frequency_table = loaded.ft
    /\ context_counts = loaded.cc
    /\ unique_chars = Cardinality(loaded.strs)
    \* main refuses a prior of fewer than k characters
    /\ prior \in {p \in Priors : Len(p) >= k}
    /\ size \in 0..MaxSize
    /\ context = prior
    /\ generatedText = prior

genFrame == <<prog, k, alpha, frequency_table, context_counts, text, trained,
              queries, last, counts, sample, reference_db, spc, ti, futures,
              results, unique_chars, prior, size, file, loaded>>

\* generateText: an iteration that ends the loop with an error message
GenBreak ==
    /\ prog = "generator" /\ pc = "generate"
    /\ i < size
    /\ context = <<>> \/ Candidates(context) = {}
    /\ pc' = "done"
    /\ UNCHANGED <<i, context, generatedText>>
    /\ UNCHANGED genFrame

\* generateText: an iteration that draws and appends next_string
GenStep ==
    /\ prog = "generator" /\ pc = "generate"
    /\ i < size
    /\ context # <<>> /\ Candidates(context) # {}
    /\ \E draw \in Draws, order \in CandidateOrders(context) :
          LET next_string == SelectLoop(context, order, 1, 0, draw)
          IN  /\ generatedText' = generatedText \o next_string
              /\ context' = SlideContext(context, next_string)
    /\ i' = i + 1
    /\ pc' = pc
    /\ UNCHANGED genFrame

\* generateText: the loop ends and generatedText is returned
GenReturn ==
    /\ prog = "generator" /\ pc = "generate"
    /\ i >= size
    /\ pc' = "done"
    /\ UNCHANGED <<i, context, generatedText>>
    /\ UNCHANGED genFrame

NextGen == GenBreak \/ GenStep \/ GenReturn

SpecGen == InitGen /\ [][NextGen]_vars

\* ----------------------- the model file: train, save_frequencyTable, loadModel
\* longest text the saved table was trained on
MaxFileText == 3
\* characters of those texts: newline, backslash and the two separators
FileChars == {"A", "NL", "BS", ":", ";"}
FileTexts == UNION {[1..m -> FileChars] : m \in 0..MaxFileText}

RECURSIVE TrainAllTotals(_, _, _)
\* FiniteContextModel::train as a whole: context_counts from index j on
TrainAllTotals(cc, t, j) ==
    IF ~TrainGuard(j, t) THEN cc
    ELSE TrainAllTotals(TrainTotals(cc, Substr(t, j, k)), t, j + 1)

InitFile ==
    /\ prog = "file"
    /\ k \in GenOrders
    /\ alpha = <<0, 1>>
    /\ frequency_table = EmptyMap /\ context_counts = EmptyMap
    /\ pc = "train" /\ text \in FileTexts /\ i = 0 /\ trained = <<>> /\ queries = 0
    /\ last = NoCall
    /\ counts = EmptyMap /\ sample = <<>> /\ reference_db = <<>>
    /\ spc = "off" /\ ti = 0 /\ futures = <<>> /\ results = <<>>
    /\ unique_chars = 0 /\ prior = <<>> /\ size = 0
    /\ context = <<>> /\ generatedText = <<>>
    /\ file = <<>> /\ loaded = NoLoad

fileFrame == <<prog, k, alpha, text, i, trained, queries, last, scoreVars,
               unique_chars, prior, size, context, generatedText>>

\* fcm: train(text) on a fresh FiniteContextModel
FileTrain ==
    /\ prog = "file" /\ pc = "train"
    /\ frequency_table' = TrainAll(frequency_table, text, 0)
    /\ context_counts' = TrainAllTotals(context_counts, text, 0)
    /\ pc' = "save"
    /\ UNCHANGED <<file, loaded>>
    /\ UNCHANGED fileFrame

\* save_frequencyTable(frequency_table) writes frequency_table.txt
SaveFrequencyTable ==
    /\ prog = "file" /\ pc = "save"
    /\ file' \in SaveOutcomes(frequency_table)
    /\ pc' = "load"
    /\ UNCHANGED <<frequency_table, context_counts, loaded>>
    /\ UNCHANGED fileFrame

\* Generator::loadModel reads frequency_table.txt; an exception of stoi is
\* not caught and ends the generator
LoadModel ==
    /\ prog = "file" /\ pc = "load"
    /\ loaded' = loadModel(file)
    /\ pc' = IF loaded'.thrown THEN "load_aborted" ELSE "loaded"
    /\ UNCHANGED <<frequency_table, context_counts, file>>
    /\ UNCHANGED fileFrame

NextFile == FileTrain \/ SaveFrequencyTable \/ LoadModel

SpecFile == InitFile /\ [][NextFile]_vars

\* ------------------------------------------------ claims: FiniteContextModel
RECURSIVE SetSum(_, _)
\* sum of f[x] over the finite set S
SetSum(f, S) ==
    IF S = {} THEN 0
    ELSE LET x == CHOOSE y \in S : TRUE IN f[x] + SetSum(f, S \ {x})

\* fractions <<num, den>> denote the same number
FracEq(p, q) == p[2] # 0 /\ q[2] # 0 /\ p[1] * q[2] = q[1] * p[2]

\* the contexts of k symbols, those of the table included
ContextsOfOrder == {x \in StringsUpTo(2) : Len(x) = k} \cup DOMAIN frequency_table

\* the number of positions p of t with t[p..p+k) = c and t[p+k] = s
Occurrences(t, c, s) ==
    Cardinality({p \in 0..(Len(t) - k - 1) :
                    SubSeq(t, p + 1, p + k) = c /\ t[p + k + 1] = s})

\* C1: after train, for every order k >= 1, every alpha and every context,
\* seen or not, the probabilities of the symbols of the alphabet sum to 1
\* (sigma = the size of the alphabet).  Stated for alpha > 0: with alpha = 0
\* an unseen context has the quotient 0/0 by the formula itself.
C1_ProbabilitiesSumToOne ==
    (pc = "idle" /\ trained # <<>> /\ k >= 1 /\ alpha[1] > 0) =>
        \A c \in ContextsOfOrder :
            LET p == [s \in Chars |->
                        ProbValue(frequency_table, context_counts, c, s,
                                  Cardinality(Chars))]
            IN  /\ \A s \in Chars : p[s][2] # 0
                /\ \A s \in Chars :
                      SetSum([x \in Chars |-> p[x][1]], Chars) = p[s][2]

\* C2: in every reachable state context_counts[c] is the sum over s of
\* frequency_table[c][s]; and after one train(text) on the empty model with
\* len(text) > k >= 1, frequency_table[c][s] is the number of positions i
\* with text[i..i+k) = c and text[i+k] = s, also after later queries.
C2_TrainCounts ==
    /\ \A c \in DOMAIN frequency_table \cup DOMAIN context_counts :
          Total(context_counts, c) =
              IF c \in DOMAIN frequency_table
              THEN SetSum(frequency_table[c], DOMAIN frequency_table[c])
              ELSE 0
    /\ (pc = "idle" /\ Len(trained) = 1 /\ k >= 1 /\ Len(trained[1]) > k) =>
          \A c \in ContextsOfOrder, s \in Chars :
              Freq(frequency_table, c, s) = Occurrences(trained[1], c, s)

\* a state after train on a text longer than k = 2 and a later query that
\* entered a new key
C2_Witness ==
    /\ pc = "idle" /\ Len(trained) = 1 /\ k = 2 /\ Len(trained[1]) = 3
    /\ last.op = "probability" /\ last.changed

ExampleTable ==
    [c \in {<<"A">>, <<"B">>} |->
        IF c = <<"A">> THEN [s \in {"B"} |-> 2] ELSE [s \in {"A"} |-> 1]]

\* C3: train("ABAB") with k = 1, alpha = 1 gives exactly A -> {B:2},
\* B -> {A:1}; then probability("A",'B',2) = 3/4 and
\* probability("A",'A',2) = 1/4.
C3_WorkedExample ==
    (pc = "idle" /\ trained = <<ExampleText>> /\ k = 1 /\ alpha = <<1, 1>>) =>
        /\ queries = 0 => frequency_table = ExampleTable
        /\ FracEq(ProbValue(frequency_table, context_counts, <<"A">>, "B", 2), <<3, 4>>)
        /\ FracEq(ProbValue(frequency_table, context_counts, <<"A">>, "A", 2), <<1, 4>>)
        /\ (last.op = "probability" /\ last.arg = <<<<"A">>, "B", 2>>) =>
              FracEq(last.value, <<3, 4>>)
        /\ (last.op = "probability" /\ last.arg = <<<<"A">>, "A", 2>>) =>
              FracEq(last.value, <<1, 4>>)

\* the worked example, after probability("A",'A',2) has returned
C3_Witness ==
    /\ pc = "idle" /\ trained = <<ExampleText>> /\ k = 1 /\ alpha = <<1, 1>>
    /\ last.op = "probability" /\ last.arg = <<<<"A">>, "A", 2>>

\* C4: once train has completed, a probability or compute_aic call leaves
\* frequency_table and context_counts as they were, keys and counts.
C4_QueriesReadOnly ==
    last.op \in {"probability", "compute_aic"} => ~last.changed

\* C9: train and compute_aic on a text with len(text) <= k, or with
\* k <= 0, end in an error outcome.
C9_ShortInputRejected ==
    (last.op \in {"train", "compute_aic"} /\ (Len(last.arg) <= k \/ k <= 0)) =>
        last.outcome = "error"

\* C10: a compute_aic call that meets a probability with numerator 0 or
\* denominator 0 ends in an error outcome, not in a returned value.
C10_ZeroProbabilityIsError ==
    (last.op = "compute_aic"
       /\ \E n \in 1..Len(last.terms) : last.terms[n][1] = 0 \/ last.terms[n][2] = 0) =>
        last.outcome = "error"

\* ------------------------------------------------------- claims: scoring
\* position of a reference entry in the file, from its name
EntryIndex(name) == CHOOSE j \in 1..Len(RefNames) : RefNames[j] = name

NrcEq(a, b) == a.nrc[1] * b.nrc[2] = b.nrc[1] * a.nrc[2]

\* C6: an entry whose sequence has len(sequence) <= k is left out of the
\* ranked output (the code keeps no diagnostics list to report it in), and
\* it does not abort the scoring of the batch.
C6_ShortEntriesExcluded ==
    /\ spc # "batch_aborted"
    /\ spc = "done" =>
          \A j \in 1..Len(reference_db) :
              Len(reference_db[j].seq) <= k =>
                  \A r \in 1..Len(results) : results[r].name # reference_db[j].name

\* C7: the ranked result holds every scored entry once, in ascending NRC
\* order, and entries of equal NRC are in their order in the reference file.
C7_RankingStable ==
    spc = "done" =>
        /\ Len(results) = Len(reference_db)
        /\ {results[r].name : r \in 1..Len(results)}
              = {reference_db[j].name : j \in 1..Len(reference_db)}
        /\ \A a, b \in 1..Len(results) :
              a < b =>
                  /\ ~NrcLess(results[b], results[a])
                  /\ NrcEq(results[a], results[b]) =>
                        EntryIndex(results[a].name) < EntryIndex(results[b].name)

RECURSIVE Pow2(_)
Pow2(n) == IF n = 0 THEN 1 ELSE 2 * Pow2(n - 1)

\* the smoothed probability of the specification, (count + alpha) /
\* (total + alpha * |Alphabet|), as a fraction of integers
SmoothedProbability(cnts, c, s) ==
    LET total == IF c \in DOMAIN cnts THEN SetSum(cnts[c], DOMAIN cnts[c]) ELSE 0
    IN  <<Freq(cnts, c, s) * alpha[2] + alpha[1],
          total * alpha[2] + alpha[1] * alphabet_size>>

RECURSIVE WindowProduct(_, _, _, _)
\* product over the windows j .. len-k-1 of component n of the probability
WindowProduct(cnts, t, j, n) ==
    IF j + k >= Len(t) THEN 1
    ELSE SmoothedProbability(cnts, SubSeq(t, j + 1, j + k), t[j + k + 1])[n]
         * WindowProduct(cnts, t, j + 1, n)

\* C8: the estimate of a sequence is the sum over its len-k windows of
\* -log2 probability(context, symbol):  2^estimate * prod(num) = prod(den).
C8_EstimateIsCrossEntropy ==
    \A t \in 1..Len(futures) :
        (futures[t].state = "ready" /\ k >= 1 /\ Len(reference_db[t].seq) > k) =>
            Pow2(futures[t].value[1])
                * WindowProduct(counts, reference_db[t].seq, 0, 1)
              = WindowProduct(counts, reference_db[t].seq, 0, 2)

\* ----------------------------------------------------- claims: generator
RECURSIVE TokenCount(_)
\* length in Tokens: backslash, n is one Token, any other character one
TokenCount(str) ==
    IF str = <<>> THEN 0
    ELSE IF Len(str) >= 2 /\ SubSeq(str, 1, 2) = Escaped
         THEN 1 + TokenCount(SubSeq(str, 3, Len(str)))
         ELSE 1 + TokenCount(Tail(str))

\* C5: for a prior of exactly k Tokens, generateText returns len(prior) + n
\* Tokens: the loop never stops early and every step appends one Token.
\* Stated for the priors that are a context of the loaded model.
C5_GeneratedLength ==
    (prog = "generator" /\ pc = "done" /\ TokenCount(prior) = k
       /\ prior \in DOMAIN frequency_table) =>
        TokenCount(generatedText) = TokenCount(prior) + size

\* ------------------------------------------------------ claims: model file
\* the key loadModel is expected to hold for the symbol s of the table
EscapeSymbol(s) == IF s = "NL" THEN Escaped ELSE <<s>>

\* C11: loadModel applied to the file save_frequencyTable wrote ends without
\* an exception and holds, for every trained context (under its escaped
\* key), the same symbols with the same counts and a total equal to the row
\* sum; two distinct trained contexts never share a loaded key.
C11_RoundTrip ==
    (prog = "file" /\ pc \in {"loaded", "load_aborted"}) =>
        /\ pc = "loaded"
        /\ \A c \in DOMAIN frequency_table :
               LET key == EscapeNewlines(c)
                   row == frequency_table[c]
               IN  /\ key \in DOMAIN loaded.ft
                   /\ DOMAIN loaded.ft[key] = {EscapeSymbol(s) : s \in DOMAIN row}
                   /\ \A s \in DOMAIN row : loaded.ft[key][EscapeSymbol(s)] = row[s]
                   /\ key \in DOMAIN loaded.cc
                   /\ loaded.cc[key] = SetSum(row, DOMAIN row)
        /\ \A c1, c2 \in DOMAIN frequency_table :
               c1 # c2 => EscapeNewlines(c1) # EscapeNewlines(c2)

\* ------------------------------------------------------- claims: generator
RECURSIVE DropTokens(_, _)
\* str without its first n Tokens
DropTokens(str, n) ==
    IF n <= 0 \/ str = <<>> THEN str
    ELSE IF Len(str) >= 2 /\ SubSeq(str, 1, 2) = Escaped
         THEN DropTokens(SubSeq(str, 3, Len(str)), n - 1)
         ELSE DropTokens(Tail(str), n - 1)
\* the last n Tokens of str
LastTokens(str, n) == DropTokens(str, TokenCount(str) - n)

\* C12: from a prior of exactly k Tokens, as long as every step appended one
\* Token, the context window holds exactly k Tokens and equals the last k
\* Tokens of the generated output.
C12_ContextIsLastKTokens ==
    (prog = "generator" /\ TokenCount(prior) = k
       /\ TokenCount(generatedText) = k + i) =>
        /\ TokenCount(context) = k
        /\ context = LastTokens(generatedText, k)

\* C13: every step of generateText that draws appends a Token of the
\* candidate set of its context: next_string is never left empty, whatever
\* the draw and the sum of the candidates' probabilities.
C13_SelectedIsCandidate ==
    [][(prog = "generator" /\ i' = i + 1) =>
          \E str \in Candidates(context) : generatedText' = generatedText \o str]_vars

\* ------------------------------------------- claims: calculate_nrc_parallel
\* C14: when calculate_nrc_parallel has returned, every task has completed
\* and the returned vector holds one OrganismMatch per reference entry, at
\* the entry's index, with the entry's name and the NRC that
\* calculate_nrc gives for the entry's sequence.
C14_ParallelResults ==
    (prog = "nsmooth" /\ spc = "sort") =>
        /\ Len(futures) = Len(reference_db)
        /\ \A t \in 1..Len(futures) : futures[t].state = "ready"
        /\ Len(results) = Len(reference_db)
        /\ \A j \in 1..Len(reference_db) :
              /\ results[j].name = reference_db[j].name
              /\ results[j].nrc = calculate_nrc(counts, reference_db[j].seq)

\* two entries of different NRC were scored and returned
C14_Witness ==
    /\ prog = "nsmooth" /\ spc = "sort"
    /\ Len(results) = 2
    /\ ~NrcEq(results[1], results[2])

\* C15: no task exists before train has returned, and no step from the
\* first launch to the end of main changes the model's counts, whatever the
\* reference sequences.
C15_ModelReadOnly ==
    /\ [](futures # <<>> => spc \in {"launch", "join", "sort", "done"})
    /\ [][(prog = "nsmooth" /\ spc \in {"launch", "join", "sort", "done"}) =>
              counts' = counts]_vars

\* a trained model has scored a sequence with a context it never saw
C15_Witness ==
    /\ prog = "nsmooth" /\ spc = "done" /\ k >= 1
    /\ counts # EmptyMap
    /\ \E t \in 1..Len(futures) :
          /\ futures[t].state = "ready"
          /\ Len(futures[t].entry.seq) > k
          /\ \E j \in 0..(Len(futures[t].entry.seq) - k) :
                Substr(futures[t].entry.seq, j, k) \notin DOMAIN counts

====
